---- MODULE Spec2Model ----
(***************************************************************************)
(* Model of the DDR publication plugin (simplify_algorithm.py): the token  *)
(* slot (LoginToken), the layer registry and catalogs (DdrInfo), the       *)
(* response interpreter (ResponseCodes) and the login / validate /         *)
(* publish / unpublish runs (Utils.process_algorithm and the four          *)
(* processAlgorithm entry points).                                         *)
(***************************************************************************)
EXTENDS Integers, Sequences, FiniteSets, TLC

(***************************************************************************)
(* Bounds of the model                                                     *)
(***************************************************************************)
MaxLayers == 2          \* layers per project file
MaxDirs == 2            \* temporary directory names the file system offers
MaxCalls == 3           \* calls in the registry and the catalog specifications
MaxNameLen == 2         \* characters of a short name in the short-name specification
MaxTextLen == 4         \* characters of a supplementary text given to push_info

(***************************************************************************)
(* Program constants                                                       *)
(***************************************************************************)
MaxDeleteAttempts == 5  \* for dummy in range(5)

None == "None"          \* Python's None

NoShortName == <<"None">>   \* shortName() giving None

(***************************************************************************)
(* Text: a string is a sequence of characters.  "E'" and "e'" stand for    *)
(* the accented letters U+00C9 and U+00E9, "acute" for the combining mark  *)
(* U+0301 and "euro" for a character without ASCII decomposition.          *)
(***************************************************************************)
Lower(c) == CASE c = "A" -> "a" [] c = "E" -> "e" [] c = "E'" -> "e'" [] OTHER -> c

NFD(c) == CASE c = "e'" -> <<"e", "acute">> [] c = "E'" -> <<"E", "acute">> [] OTHER -> <<c>>

IsAscii(c) == c \in {"A", "a", "E", "e", " ", "_", ",", ";"}

RECURSIVE MapChars(_, _)
MapChars(s, kind) ==
    IF s = <<>> THEN <<>>
    ELSE LET c == Head(s)
             r == CASE kind = "space" -> <<(IF c = " " THEN "_" ELSE c)>>
                    [] kind = "lower" -> <<Lower(c)>>
                    [] kind = "nfd" -> NFD(c)
                    [] kind = "ascii" -> (IF IsAscii(c) THEN <<c>> ELSE <<>>)
                    [] kind = "comma" -> <<(IF c = "," THEN ";" ELSE c)>>
         IN r \o MapChars(Tail(s), kind)

(***************************************************************************)
(* LoginToken                                                              *)
(***************************************************************************)
set_token(tok) == tok

get_token_lenient(slot) == [exc |-> "none", value |-> slot]

get_token(slot) ==
    IF slot = None THEN [exc |-> "user", value |-> None]
    ELSE [exc |-> "none", value |-> slot]

(***************************************************************************)
(* DdrInfo: the layer registry.  reg = [en |-> names, fr |-> names]        *)
(***************************************************************************)
\* before the first init_project_file the four lists are None; nothing
\* reads them before init_project_file has run
init_project_file == [en |-> <<>>, fr |-> <<>>]

InSeq(x, s) == \E i \in 1..Len(s) : s[i] = x

add_layer_append_first(reg, short_name, language) ==
    LET names == IF language = "EN" THEN reg.en ELSE reg.fr
        added == IF language = "EN" THEN [reg EXCEPT !.en = Append(names, short_name)]
                 ELSE [reg EXCEPT !.fr = Append(names, short_name)]
    IN IF short_name = NoShortName \/ short_name = <<>> \/ InSeq(short_name, names)
       THEN [exc |-> "user", reg |-> added]
       ELSE [exc |-> "none", reg |-> added]

add_layer_one_list(reg, short_name, language) ==
    IF short_name = NoShortName \/ short_name = <<>>
    THEN [exc |-> "user", reg |-> reg]
    ELSE IF ~InSeq(short_name, reg.en \o reg.fr)
    THEN [exc |-> "none",
          reg |-> IF language = "EN" THEN [reg EXCEPT !.en = Append(reg.en, short_name)]
                  ELSE [reg EXCEPT !.fr = Append(reg.fr, short_name)]]
    ELSE [exc |-> "user", reg |-> reg]

add_layer(reg, short_name, language) ==
    IF short_name = NoShortName \/ short_name = <<>>
    THEN [exc |-> "user", reg |-> reg]
    ELSE LET names == IF language = "EN" THEN reg.en ELSE reg.fr
         IN IF ~InSeq(short_name, names)
            THEN [exc |-> "none",
                  reg |-> IF language = "EN" THEN [reg EXCEPT !.en = Append(names, short_name)]
                          ELSE [reg EXCEPT !.fr = Append(names, short_name)]]
            ELSE [exc |-> "user", reg |-> reg]

get_layer_short_name_no_lower(short_name) ==
    MapChars(MapChars(MapChars(short_name, "space"), "nfd"), "ascii")

get_layer_short_name(short_name) ==
    MapChars(MapChars(MapChars(MapChars(short_name, "space"), "lower"), "nfd"), "ascii")

Max(a, b) == IF a >= b THEN a ELSE b

get_nbr_layers_en_only(reg) == Len(reg.en)

get_nbr_layers(reg) == Max(Len(reg.en), Len(reg.fr))


(***************************************************************************)
(* DdrInfo: the catalogs.  A JSON body is [shape, items]; a theme item is  *)
(* [shape, theme_uuid, title_shape, en, fr] with "absent" for a missing    *)
(* key; a department item is [shape, subpath].                             *)
(***************************************************************************)
Absent == "absent"               \* a key the JSON object does not have

AbsentText == <<"absent">>        \* the same, where the value would be a text

ListBody(items) == [shape |-> "list", items |-> items]

RECURSIVE validate_themes(_)
validate_themes(items) ==
    IF items = <<>> THEN [exc |-> "none", items |-> <<>>]
    ELSE LET item == Head(items)
         IN IF item.shape # "object" THEN [exc |-> "raw", items |-> items]
            ELSE IF item.theme_uuid = Absent THEN [exc |-> "user", items |-> items]
            ELSE IF item.title_shape = Absent THEN [exc |-> "user", items |-> items]
            ELSE IF item.title_shape # "object" THEN [exc |-> "raw", items |-> items]
            ELSE IF item.en = AbsentText THEN [exc |-> "user", items |-> items]
            ELSE LET item_en == [item EXCEPT !.en = MapChars(item.en, "comma")]
                 IN IF item.fr = AbsentText
                    THEN [exc |-> "user", items |-> <<item_en>> \o Tail(items)]
                    ELSE LET item_fr == [item_en EXCEPT !.fr = MapChars(item.fr, "comma")]
                             rest == validate_themes(Tail(items))
                         IN [exc |-> rest.exc, items |-> <<item_fr>> \o rest.items]

add_themes_verbatim(json_theme) ==
    [exc |-> validate_themes(json_theme.items).exc, stored |-> json_theme]

add_themes(json_theme) ==
    IF json_theme.shape # "list"
    THEN [exc |-> "raw", stored |-> json_theme]
    ELSE LET r == validate_themes(json_theme.items)
         IN [exc |-> r.exc, stored |-> ListBody(r.items)]

RECURSIVE validate_departments(_)
validate_departments(items) ==
    IF items = <<>> THEN "none"
    ELSE IF Head(items).shape # "object" THEN "raw"
    ELSE IF Head(items).subpath = Absent THEN "user"
    ELSE validate_departments(Tail(items))

add_departments(json_department) ==
    IF json_department.shape # "list"
    THEN [exc |-> "raw", stored |-> json_department]
    ELSE [exc |-> validate_departments(json_department.items), stored |-> json_department]

add_email(json_email) == [exc |-> "none", stored |-> json_email]

\* the loop of get_theme_uuid: the uuid of the first item whose title
\* matches, else the uuid of the last item
RECURSIVE theme_uuid_loop(_, _, _)
theme_uuid_loop(items, title, item_uuid) ==
    IF items = <<>> THEN [exc |-> "none", value |-> item_uuid]
    ELSE LET item == Head(items)
         IN IF item.shape # "object" \/ item.theme_uuid = Absent
               \/ item.title_shape # "object" \/ item.en = AbsentText \/ item.fr = AbsentText
            THEN [exc |-> "raw", value |-> None]
            ELSE IF title = item.en \/ title = item.fr
            THEN [exc |-> "none", value |-> item.theme_uuid]
            ELSE theme_uuid_loop(Tail(items), title, item.theme_uuid)

get_theme_uuid(json_theme, title) ==
    IF json_theme.shape # "list" THEN [exc |-> "raw", value |-> None]
    ELSE IF json_theme.items = <<>> THEN [exc |-> "raw", value |-> None]
    ELSE LET r == theme_uuid_loop(json_theme.items, title, None)
         IN IF r.exc = "none" /\ r.value = None THEN [exc |-> "user", value |-> None]
            ELSE r


\* get_theme_lst: an item without 'title', or a title without the
\* language, is a KeyError nothing catches; an item or a title that is not
\* a mapping is a TypeError
RECURSIVE theme_lst_loop(_, _)
theme_lst_loop(items, language) ==
    IF items = <<>> THEN [exc |-> "none", value |-> <<>>]
    ELSE LET item == Head(items)
             text == IF language = "en" THEN item.en ELSE item.fr
         IN IF item.shape # "object" \/ item.title_shape # "object" \/ text = AbsentText
            THEN [exc |-> "raw", value |-> <<>>]
            ELSE LET rest == theme_lst_loop(Tail(items), language)
                 IN [exc |-> rest.exc,
                     value |-> IF rest.exc = "none" THEN <<text>> \o rest.value ELSE <<>>]

get_theme_lst(json_theme, language) ==
    IF language \notin {"fr", "en"} THEN [exc |-> "user", value |-> <<>>]
    ELSE IF json_theme.shape # "list" THEN [exc |-> "raw", value |-> <<>>]
    ELSE theme_lst_loop(json_theme.items, language)

RECURSIVE department_lst_loop(_)
department_lst_loop(items) ==
    IF items = <<>> THEN [exc |-> "none", value |-> <<>>]
    ELSE IF Head(items).shape # "object" \/ Head(items).subpath = Absent
    THEN [exc |-> "raw", value |-> <<>>]
    ELSE LET rest == department_lst_loop(Tail(items))
         IN [exc |-> rest.exc,
             value |-> IF rest.exc = "none" THEN <<Head(items).subpath>> \o rest.value
                       ELSE <<>>]

get_department_lst(json_department) ==
    IF json_department.shape # "list" THEN [exc |-> "raw", value |-> <<>>]
    ELSE department_lst_loop(json_department.items)

(***************************************************************************)
(* ResponseCodes: the response interpreter.  A response is                 *)
(* [status, json_ok, body]; json_exc is what a body that is not JSON makes *)
(* response.json() raise: a RequestException ("user" once re-raised by the *)
(* caller) or a ValueError ("raw"), depending on the installed requests.   *)
(***************************************************************************)
Statuses == {200, 204, 400, 401, 403, 404, 500, 520}

\* the keys of http.client.responses among Statuses
ReasonPhrases == {200, 204, 400, 401, 403, 404, 500}

_push_response == "none"

ResponseCodes_other(status) == IF status \in ReasonPhrases THEN _push_response ELSE "raw"

ResponseCodes_validate_project_file(resp, json_exc) ==
    IF resp.status = 200 THEN (IF resp.json_ok THEN "none" ELSE json_exc)
    ELSE IF resp.status \in {401, 403, 500} THEN _push_response
    ELSE ResponseCodes_other(resp.status)

ResponseCodes_publish_project_file(resp) ==
    IF resp.status = 204 THEN "none" ELSE _push_response

ResponseCodes_unpublish_project_file(resp) ==
    IF resp.status = 204 THEN "none" ELSE _push_response

\* body = [access_token, complete]: complete says that expires_in,
\* refresh_token, refresh_expires_in and token_type are all present
ResponseCodes_create_access_token(slot, resp, json_exc) ==
    IF resp.status = 200
    THEN IF ~resp.json_ok THEN [exc |-> json_exc, slot |-> slot]
         ELSE IF resp.body.access_token = Absent THEN [exc |-> "raw", slot |-> slot]
         ELSE LET slot1 == set_token(resp.body.access_token)
              IN IF ~resp.body.complete THEN [exc |-> "raw", slot |-> slot1]
                 ELSE [exc |-> get_token(slot1).exc, slot |-> slot1]
    ELSE IF resp.status \in {400, 401} THEN [exc |-> _push_response, slot |-> slot]
    ELSE [exc |-> ResponseCodes_other(resp.status), slot |-> slot]

\* the catalog ingestion each lookup ends with, giving [exc, stored]
DDR_INFO_add(op, body) ==
    CASE op = "czs_themes" -> add_themes(body)
      [] op = "ddr_departments" -> add_departments(body)
      [] op = "ddr_my_email" -> add_email(body)

\* read_csz_theme, read_ddr_departments, read_user_email
ResponseCodes_read(op, catalog, resp, json_exc) ==
    IF resp.status = 200
    THEN IF ~resp.json_ok THEN [exc |-> json_exc, stored |-> catalog]
         ELSE DDR_INFO_add(op, resp.body)
    ELSE IF resp.status \in {401, 403} THEN [exc |-> _push_response, stored |-> catalog]
    ELSE [exc |-> ResponseCodes_other(resp.status), stored |-> catalog]

\* Utils.push_info: a line of the feedback log.  status is the HTTP status
\* the line is about (0: none), details says that the line is the dump of
\* the JSON body of the response
LogEntry(level, status, message, details) ==
    [level |-> level, status |-> status, message |-> message, details |-> details]

\* http.client.responses, over ReasonPhrases
http_client_responses(status) ==
    CASE status = 200 -> "OK"
      [] status = 204 -> "No Content"
      [] status = 400 -> "Bad Request"
      [] status = 401 -> "Unauthorized"
      [] status = 403 -> "Forbidden"
      [] status = 404 -> "Not Found"
      [] status = 500 -> "Internal Server Error"

\* what _push_response pushes: the status and the message, then the dump
\* of the body when response.json() gives one; "except Exception: pass"
\* when it does not
_push_response_log(resp, status_code, message) ==
    <<LogEntry("ERROR", status_code, message, FALSE)>>
    \o (IF resp.json_ok THEN <<LogEntry("ERROR", status_code, "json", TRUE)>> ELSE <<>>)

\* the else branch that looks the reason phrase up: nothing is pushed when
\* the lookup raises KeyError
ResponseCodes_other_log(resp) ==
    IF resp.status \in ReasonPhrases
    THEN _push_response_log(resp, resp.status, http_client_responses(resp.status))
    ELSE <<>>

\* read_csz_theme, read_ddr_departments and read_user_email push the same
\* lines for 401, 403 and the other statuses
ResponseCodes_read_log(resp) ==
    IF resp.status = 200
    THEN <<LogEntry("INFO", 200, "Status code", FALSE)>>
    ELSE IF resp.status = 401
    THEN _push_response_log(resp, 401, "Access token is missing or invalid.")
    ELSE IF resp.status = 403
    THEN _push_response_log(resp, 403, "Access does not have the required scope.")
    ELSE ResponseCodes_other_log(resp)

ResponseCodes_create_access_token_log(resp) ==
    IF resp.status = 200
    THEN <<LogEntry("INFO", 200, "A token or a refresh token is given to the user", FALSE)>>
         \o (IF resp.json_ok /\ resp.body.access_token \notin {Absent, None}
                 /\ resp.body.complete
              THEN <<LogEntry("INFO", 200, "Access token", FALSE)>> ELSE <<>>)
    ELSE IF resp.status = 400
    THEN _push_response_log(resp, 400, "Bad request received on server.")
    ELSE IF resp.status = 401
    THEN _push_response_log(resp, 401, "Invalid credentials provided.")
    ELSE ResponseCodes_other_log(resp)

ResponseCodes_validate_project_file_log(resp) ==
    IF resp.status = 200
    THEN (IF resp.json_ok THEN <<LogEntry("INFO", 200, "json", TRUE)>> ELSE <<>>)
    ELSE IF resp.status = 401
    THEN _push_response_log(resp, 401, "Access token is missing or invalid.")
    ELSE IF resp.status = 403
    THEN _push_response_log(resp, 403, "Access token does not have the required scope.")
    ELSE IF resp.status = 500
    THEN _push_response_log(resp, 500, "Internal error.")
    ELSE ResponseCodes_other_log(resp)

\* publish_project_file and unpublish_project_file differ by the text of
\* the success line only
ResponseCodes_publish_project_file_log(resp, success) ==
    IF resp.status = 204
    THEN <<LogEntry("INFO", 204, success, FALSE)>>
    ELSE IF resp.status = 401
    THEN _push_response_log(resp, 401, "Access token is missing or invalid.")
    ELSE IF resp.status = 403
    THEN _push_response_log(resp, 403, "Access does not have the required scope.")
    ELSE IF resp.status = 500
    THEN _push_response_log(resp, 500, "Internal error.")
    ELSE _push_response_log(resp, resp.status, "Unknown error")


(***************************************************************************)
(* Inputs                                                                  *)
(***************************************************************************)
Tokens == {"tokA", "tokB"}

\* a layer is [short_name, kind]: "vector" is a spatial vector layer,
\* "table" a vector layer without geometry, "raster" a spatial layer that
\* is not a vector layer
Layer(short_name, kind) == [short_name |-> short_name, kind |-> kind]

SeqsUpTo(S, n) == UNION {[1..k -> S] : k \in 0..n}

PipelineLayers == {Layer(<<"a">>, "vector"), Layer(<<"A">>, "vector")}

PipelineLayerLists == SeqsUpTo(PipelineLayers, MaxLayers)

Theme(uuid, en, fr) ==
    [shape |-> "object", theme_uuid |-> uuid, title_shape |-> "object", en |-> en, fr |-> fr]

ThemeA == Theme("uuidA", <<"a">>, <<"e">>)

Department(subpath) == [shape |-> "object", subpath |-> subpath]

SessionThemeBodies == {ListBody(<<ThemeA>>)}

\* the session specification varies the theme catalog only: the server
\* has no department and no email to return
SessionDepartmentBodies == {ListBody(<<>>)}

SessionEmailBodies == {ListBody(<<>>)}

LoginBodies == [access_token : Tokens \cup {None, Absent}, complete : BOOLEAN]

Response(status, json_ok, body) == [status |-> status, json_ok |-> json_ok, body |-> body]

NoBody == ListBody(<<>>)

\* no answer: the request raised a requests.exceptions.RequestException
TransportFailure == [status |-> 0, json_ok |-> FALSE, body |-> NoBody]

\* the answer as the specification records it
Recorded(record, resp) == IF record THEN <<resp>> ELSE <<>>

\* the lines the interpreter pushed, as the specification records them
RecordedLog(record, lines) == IF record THEN lines ELSE <<>>

\* the responses a server can give when the 200 bodies are drawn from Bodies
Responses(Bodies) ==
    {Response(st, ok, NoBody) : st \in Statuses \ {200}, ok \in BOOLEAN}
    \cup {Response(200, FALSE, NoBody)}
    \cup {Response(200, TRUE, b) : b \in Bodies}

DirNames == 1..MaxDirs

(***************************************************************************)
(* State                                                                   *)
(***************************************************************************)
VARIABLES
    pc,               \* the stage the current run is about to execute, or "idle"
    process_type,     \* "LOGIN", "VALIDATE", "PUBLISH", "UNPUBLISH" or another kind
    outcome,          \* how the last processAlgorithm ended
    token,            \* LOGIN_TOKEN.token
    json_theme,       \* DDR_INFO.json_theme
    json_department,  \* DDR_INFO.json_department
    json_email,       \* DDR_INFO.json_email
    registry,         \* DDR_INFO.qgis_layer_name_en / qgis_layer_name_fr
    project,          \* QgsProject.instance(): [file, dirty]
    qgs_layers,       \* the layers of the English and French project files
    ctl_file,         \* the ControlFile of the run
    disk,             \* the temporary directories that exist
    files,            \* the files in the working directory of the run
    gpkg,             \* the layer keys in qgis_vector_layers.gpkg
    cwd,              \* the current directory of the process
    sent,             \* the HTTP requests issued by the run
    answers,          \* the answers to them, where the specification records them
    restored,         \* restore_original_project_file was executed in the run
    attempts,         \* the rmtree attempts of the run, in order
    calls,            \* the calls made (registry and catalog specifications)
    zip_entries,      \* the entries of ddr_publish.zip, in the order written
    manifest,         \* the content of ControlFile.json, once written
    writes,           \* the writeAsVectorFormatV3 calls of the run, in order
    repointed,        \* per locale, the container keys its written project file refers to
    log               \* what the run pushed to the feedback log, where recorded

vars == <<pc, process_type, outcome, token, json_theme, json_department, json_email,
          registry, project, qgs_layers, ctl_file, disk, files, gpkg, cwd, sent,
          answers, restored, attempts, calls, zip_entries, manifest, writes, repointed,
          log>>

session == <<token, json_theme, json_department, json_email>>

workspace == <<registry, project, qgs_layers, ctl_file, disk, files, gpkg, cwd,
               restored, attempts, zip_entries, manifest, writes, repointed>>

\* ControlFile(): every field is None
NoControlFile ==
    [keep_files |-> None, csz_collection_theme |-> <<"None">>,
     qgis_project_file_en |-> None, qgis_project_file_fr |-> None,
     src_qgs_project_name |-> None, control_file_dir |-> -1,
     out_qgs_project_file_en |-> None, out_qgs_project_file_fr |-> None]

NoRegistry == [en |-> <<>>, fr |-> <<>>]

\* ControlFile.json does not exist
NoManifest == [czs_collection_theme |-> None, service_parameters |-> <<>>]

Init ==
    /\ pc = "idle"
    /\ process_type = None
    /\ outcome = "none"
    /\ token = None
    /\ json_theme = ListBody(<<>>)
    /\ json_department = ListBody(<<>>)
    /\ json_email = ListBody(<<>>)
    /\ registry = NoRegistry
    /\ project = [file |-> "orig.qgs", dirty |-> FALSE]
    /\ qgs_layers = [en |-> <<>>, fr |-> <<>>]
    /\ ctl_file = NoControlFile
    /\ disk = {}
    /\ files = {}
    /\ gpkg = {}
    /\ cwd = 0                \* the directory the host runs in
    /\ sent = <<>>
    /\ answers = <<>>
    /\ restored = FALSE
    /\ attempts = <<>>
    /\ calls = <<>>
    /\ zip_entries = <<>>
    /\ manifest = NoManifest
    /\ writes = <<>>
    /\ repointed = [en |-> {}, fr |-> {}]
    /\ log = <<>>

\* an exception leaves process_algorithm: processAlgorithm logs a
\* UserMessageException and returns {}; any other exception reaches the host
Raise(exc) ==
    /\ pc' = "returned"
    /\ outcome' = IF exc = "user" THEN "logged" ELSE "escaped"

Return ==
    /\ pc' = "returned"
    /\ outcome' = "ok"

Goto(stage) ==
    /\ pc' = stage
    /\ outcome' = outcome


(***************************************************************************)
(* The host: the user edits or saves the live project between two runs     *)
(***************************************************************************)
UserEditsProject ==
    /\ pc = "idle"
    /\ ~project.dirty
    /\ project' = [project EXCEPT !.dirty = TRUE]
    /\ UNCHANGED <<pc, process_type, outcome, session, registry, qgs_layers, ctl_file,
                   disk, files, gpkg, zip_entries, manifest, writes, repointed, cwd, sent, answers, restored, attempts, calls, log>>

UserSavesProject ==
    /\ pc = "idle"
    /\ project.dirty
    /\ project' = [project EXCEPT !.dirty = FALSE]
    /\ UNCHANGED <<pc, process_type, outcome, session, registry, qgs_layers, ctl_file,
                   disk, files, gpkg, zip_entries, manifest, writes, repointed, cwd, sent, answers, restored, attempts, calls, log>>

\* "return {}": control is back in the host; the ControlFile of the run
\* is gone and what the model recorded about the run is forgotten
processAlgorithm_return ==
    /\ pc = "returned"
    /\ pc' = "idle"
    /\ process_type' = None
    /\ outcome' = "none"
    /\ ctl_file' = NoControlFile
    /\ qgs_layers' = [en |-> <<>>, fr |-> <<>>]
    /\ files' = {}
    /\ gpkg' = {}
    /\ sent' = <<>>
    /\ answers' = <<>>
    /\ restored' = FALSE
    /\ attempts' = <<>>
    /\ zip_entries' = <<>>
    /\ manifest' = NoManifest
    /\ writes' = <<>>
    /\ repointed' = [en |-> {}, fr |-> {}]
    /\ log' = <<>>
    /\ UNCHANGED <<session, registry, project, disk, cwd, calls>>

(***************************************************************************)
(* Validate, publish, unpublish: Utils.process_algorithm, stage by stage   *)
(***************************************************************************)
\* the kinds DdrValidate, DdrPublish and DdrUnpublish pass
ProcessTypes == {"VALIDATE", "PUBLISH", "UNPUBLISH"}

ThemeChoices == {<<>>, <<"a">>}

process_algorithm_keeps_registry(Kinds) ==
    /\ pc = "idle"
    /\ \E kind \in Kinds : process_type' = kind
    /\ \E keep \in {"Yes", "No"}, en \in {"", "en.qgs"}, fr \in {"", "fr.qgs"},
          theme \in ThemeChoices :
          ctl_file' = [NoControlFile EXCEPT !.keep_files = keep,
                                            !.csz_collection_theme = theme,
                                            !.qgis_project_file_en = en,
                                            !.qgis_project_file_fr = fr]
    /\ registry' = registry
    /\ pc' = "copy_qgis_project_file"
    /\ outcome' = "running"
    /\ UNCHANGED <<session, project, qgs_layers, disk, files, gpkg, zip_entries, manifest, writes, repointed, cwd, sent, answers,
                   restored, attempts, calls, log>>

\* processAlgorithm calls process_algorithm: init_project_file,
\* ControlFile(), read_parameters, validate_parameters
process_algorithm(Kinds) ==
    /\ pc = "idle"
    /\ \E kind \in Kinds : process_type' = kind
    /\ \E keep \in {"Yes", "No"}, en \in {"", "en.qgs"}, fr \in {"", "fr.qgs"},
          theme \in ThemeChoices :
          ctl_file' = [NoControlFile EXCEPT !.keep_files = keep,
                                            !.csz_collection_theme = theme,
                                            !.qgis_project_file_en = en,
                                            !.qgis_project_file_fr = fr]
    /\ registry' = init_project_file
    /\ pc' = "copy_qgis_project_file"
    /\ outcome' = "running"
    /\ UNCHANGED <<session, project, qgs_layers, disk, files, gpkg, zip_entries, manifest, writes, repointed, cwd, sent, answers,
                   restored, attempts, calls, log>>

\* the loop "for src_layer in mapLayers().values(): DDR_INFO.add_layer(...)"
RECURSIVE add_layers(_, _, _)
add_layers(reg, layers, language) ==
    IF layers = <<>> THEN [exc |-> "none", reg |-> reg]
    ELSE LET r == add_layer(reg, Head(layers).short_name, language)
         IN IF r.exc # "none" THEN r ELSE add_layers(r.reg, Tail(layers), language)

\* from "Save the name of the actual QGS project file" to the end: the
\* project files named by QGIS_FILE_EN and QGIS_FILE_FR hold le and lf
snapshot(LayerLists) ==
    \E d \in DirNames \ disk, lf \in LayerLists, le \in LayerLists :
       LET en == ctl_file.qgis_project_file_en
           fr == ctl_file.qgis_project_file_fr
           reg_fr == IF fr # "" THEN add_layers(registry, lf, "FR")
                     ELSE [exc |-> "none", reg |-> registry]
           en_read == reg_fr.exc = "none" /\ en # ""
           reg_en == IF en_read THEN add_layers(reg_fr.reg, le, "EN") ELSE reg_fr
       IN /\ disk' = disk \cup {d}
          /\ ctl_file' = [ctl_file EXCEPT
                 !.src_qgs_project_name = project.file,
                 !.control_file_dir = d,
                 !.out_qgs_project_file_fr = IF fr # "" THEN "fr.qgs" ELSE None,
                 !.out_qgs_project_file_en = IF en_read THEN "en.qgs" ELSE None]
          /\ qgs_layers' = [fr |-> IF fr # "" THEN lf ELSE <<>>,
                            en |-> IF en_read THEN le ELSE <<>>]
          /\ files' = (IF fr # "" THEN {"fr.qgs"} ELSE {})
                      \cup (IF en_read THEN {"en.qgs"} ELSE {})
          /\ project' = [file |-> IF en_read THEN "out_en"
                                  ELSE IF fr # "" THEN "out_fr" ELSE "",
                         dirty |-> FALSE]
          /\ registry' = reg_en.reg
          /\ IF reg_en.exc = "none" THEN Goto("copy_layer_gpkg")
             ELSE Raise(reg_en.exc)

copy_qgis_project_file_late_check(LayerLists) ==
    /\ pc = "copy_qgis_project_file"
    /\ IF project.dirty
       THEN /\ \E d \in DirNames \ disk :
                  /\ disk' = disk \cup {d}
                  /\ ctl_file' = [ctl_file EXCEPT !.control_file_dir = d]
            /\ Raise("user")
            /\ UNCHANGED <<registry, project, qgs_layers, files>>
       ELSE snapshot(LayerLists)
    /\ UNCHANGED <<process_type, session, gpkg, zip_entries, manifest, writes, repointed, cwd, sent, answers, restored, attempts, calls, log>>

copy_qgis_project_file(LayerLists) ==
    /\ pc = "copy_qgis_project_file"
    /\ IF project.dirty
       THEN /\ Raise("user")
            /\ UNCHANGED <<registry, project, qgs_layers, ctl_file, disk, files>>
       ELSE snapshot(LayerLists)
    /\ UNCHANGED <<process_type, session, gpkg, zip_entries, manifest, writes, repointed, cwd, sent, answers, restored, attempts, calls, log>>

\* the layers of the project QgsProject.instance() holds
CurrentLayers ==
    IF project.file = "out_en" THEN qgs_layers.en
    ELSE IF project.file = "out_fr" THEN qgs_layers.fr
    ELSE <<>>

\* src_layer.isSpatial(): a table has no geometry
isSpatial(layer) == layer.kind \in {"vector", "raster"}

\* src_layer.type() == QgsMapLayer.VectorLayer: a table is a vector layer
isVectorLayer(layer) == layer.kind \in {"vector", "table"}

\* one call of QgsVectorFileWriter.writeAsVectorFormatV3: options.layerName
\* and whether the error it returned is an error
Write(layerName, error) == [layerName |-> layerName, error |-> error]

\* the loop of copy_layer_gpkg over the layers of QgsProject.instance();
\* errors[i] is what the writer returns if layers[i] is written.  The
\* returned error is assigned and never read.
RECURSIVE copy_layers(_, _)
copy_layers(layers, errors) ==
    IF layers = <<>> THEN [writes |-> <<>>, log |-> <<>>]
    ELSE LET src_layer == Head(layers)
             rest == copy_layers(Tail(layers), Tail(errors))
         IN IF isSpatial(src_layer) /\ isVectorLayer(src_layer)
            THEN [writes |-> <<Write(get_layer_short_name(src_layer.short_name),
                                     Head(errors))>> \o rest.writes,
                  log |-> <<LogEntry("INFO", 0, "Copying layer", FALSE)>> \o rest.log]
            ELSE IF isSpatial(src_layer)
            THEN [writes |-> rest.writes,
                  log |-> <<LogEntry("WARNING", 0, "is not vector ==> Not transfered",
                                     FALSE)>> \o rest.log]
            ELSE [writes |-> rest.writes,
                  log |-> <<LogEntry("WARNING", 0, "is not spatial ==> transfered",
                                     FALSE)>> \o rest.log]

\* the layers of qgis_vector_layers.gpkg after the calls
Written(calls_made) ==
    {calls_made[i].layerName : i \in {j \in 1..Len(calls_made) : ~calls_made[j].error}}

\* WriteErrors: the results the writer may return (TRUE: an error)
copy_layer_gpkg(WriteErrors) ==
    /\ pc = "copy_layer_gpkg"
    /\ \E errors \in [1..Len(CurrentLayers) -> WriteErrors] :
          LET r == copy_layers(CurrentLayers, errors)
          IN /\ writes' = r.writes
             /\ log' = log \o r.log
             /\ gpkg' = Written(r.writes)
             /\ files' = IF Written(r.writes) = {} THEN files
                         ELSE files \cup {"qgis_vector_layers.gpkg"}
    /\ Goto("set_layer_data_source")
    /\ UNCHANGED <<process_type, session, registry, project, qgs_layers, ctl_file, disk,
                   cwd, sent, answers, restored, attempts, calls, zip_entries, manifest,
                   repointed>>

\* _set_layer: the layerName of the uri every VectorLayer of the project
\* is given as its data source
_set_layer(layers) ==
    {get_layer_short_name(layers[i].short_name) :
        i \in {j \in 1..Len(layers) : isVectorLayer(layers[j])}}

\* qgs_project.write(None) is a TypeError; repointed holds what the
\* written project files refer to
set_layer_data_source ==
    /\ pc = "set_layer_data_source"
    /\ IF ctl_file.out_qgs_project_file_en = None
       THEN /\ Raise("raw")
            /\ UNCHANGED <<project, repointed>>
       ELSE /\ project' = [file |-> IF ctl_file.qgis_project_file_fr # "" THEN "out_fr" ELSE "",
                           dirty |-> FALSE]
            /\ repointed' = [en |-> _set_layer(CurrentLayers),
                             fr |-> IF ctl_file.qgis_project_file_fr # ""
                                    THEN _set_layer(qgs_layers.fr) ELSE {}]
            /\ Goto("create_json_control_file")
    /\ UNCHANGED <<process_type, session, registry, qgs_layers, ctl_file, disk, files, gpkg,
                   zip_entries, manifest, writes, cwd, sent, answers, restored, attempts,
                   calls, log>>

\* one entry of "service_parameters"
ServiceParameters(in_project_filename, language) ==
    [in_project_filename |-> in_project_filename, language |-> language]

\* the document create_json_control_file serialises: the two blocks are
\* literal, Path(ctl_file.out_qgs_project_file_en).name is "en.qgs"
json_control_file(theme_uuid) ==
    [czs_collection_theme |-> theme_uuid,
     service_parameters |-> <<ServiceParameters("en.qgs", "English"),
                              ServiceParameters("fr.qgs", "French")>>]

create_json_control_file_skips_zip ==
    /\ pc = "create_json_control_file"
    /\ LET theme_uuid == get_theme_uuid(json_theme, ctl_file.csz_collection_theme)
       IN IF theme_uuid.exc # "none"
          THEN Raise(theme_uuid.exc) /\ UNCHANGED <<files, manifest>>
          ELSE IF ctl_file.out_qgs_project_file_en = None
                  \/ ctl_file.out_qgs_project_file_fr = None
          THEN Raise("raw") /\ UNCHANGED <<files, manifest>>
          ELSE /\ files' = files \cup {"ControlFile.json"}
               /\ manifest' = json_control_file(theme_uuid.value)
               /\ Goto("remote_operation")
    /\ UNCHANGED <<process_type, session, registry, project, qgs_layers, ctl_file, disk,
                   gpkg, zip_entries, writes, repointed, cwd, sent, answers, restored,
                   attempts, calls, log>>

\* Path(None) is a TypeError
create_json_control_file ==
    /\ pc = "create_json_control_file"
    /\ LET theme_uuid == get_theme_uuid(json_theme, ctl_file.csz_collection_theme)
       IN IF theme_uuid.exc # "none"
          THEN Raise(theme_uuid.exc) /\ UNCHANGED <<files, manifest>>
          ELSE IF ctl_file.out_qgs_project_file_en = None
                  \/ ctl_file.out_qgs_project_file_fr = None
          THEN Raise("raw") /\ UNCHANGED <<files, manifest>>
          ELSE /\ files' = files \cup {"ControlFile.json"}
               /\ manifest' = json_control_file(theme_uuid.value)
               /\ Goto("create_zip_file")
    /\ UNCHANGED <<process_type, session, registry, project, qgs_layers, ctl_file, disk,
                   gpkg, zip_entries, writes, repointed, cwd, sent, answers, restored,
                   attempts, calls, log>>

\* the names create_zip_file gives to archive.write, in order: the
\* Path(...).name of the manifest, the container and the two project files
lst_file_to_zip == <<"ControlFile.json", "qgis_vector_layers.gpkg", "en.qgs", "fr.qgs">>

\* "for file_to_zip in lst_file_to_zip: archive.write(file_to_zip)": the
\* entries written before the first file that does not exist
RECURSIVE archive_write(_, _)
archive_write(names, present) ==
    IF names = <<>> \/ Head(names) \notin present THEN <<>>
    ELSE <<Head(names)>> \o archive_write(Tail(names), present)

\* archive.write of a file that does not exist is a FileNotFoundError,
\* raised after the zip file was created and before os.chdir(current_dir)
create_zip_file ==
    /\ pc = "create_zip_file"
    /\ files' = files \cup {"ddr_publish.zip"}
    /\ zip_entries' = archive_write(lst_file_to_zip, files)
    /\ IF Len(zip_entries') = Len(lst_file_to_zip)
       THEN /\ cwd' = cwd
            /\ Goto("remote_operation")
       ELSE /\ cwd' = ctl_file.control_file_dir
            /\ Raise("raw")
    /\ UNCHANGED <<process_type, session, registry, project, qgs_layers, ctl_file, disk,
                   gpkg, manifest, writes, repointed, sent, answers, restored, attempts,
                   calls, log>>

(***************************************************************************)
(* The remote operation of the run                                         *)
(***************************************************************************)
Request(op, method, bearer) == [op |-> op, method |-> method, bearer |-> bearer]

\* login is the only request without an Authorization header
Authenticated(request) == request.op # "login"

\* a request with files = {'zip_file': open(ctl_file.zip_file_name, 'rb')}
Upload(op, method, bearer) ==
    [op |-> op, method |-> method, bearer |-> bearer, zip_file |-> "ddr_publish.zip"]

RemoteOp_always_post(kind) == Upload("validate", "POST", token)

RemoteOp(kind) ==
    CASE kind = "VALIDATE" -> Upload("validate", "POST", token)
      [] kind = "PUBLISH" -> Upload("processes", "PUT", token)
      [] kind = "UNPUBLISH" -> Upload("processes", "DELETE", token)

Interpret(kind, resp, json_exc) ==
    CASE kind = "VALIDATE" -> ResponseCodes_validate_project_file(resp, json_exc)
      [] kind = "PUBLISH" -> ResponseCodes_publish_project_file(resp)
      [] kind = "UNPUBLISH" -> ResponseCodes_unpublish_project_file(resp)

InterpretLog(kind, resp) ==
    CASE kind = "VALIDATE" -> ResponseCodes_validate_project_file_log(resp)
      [] kind = "PUBLISH" ->
           ResponseCodes_publish_project_file_log(resp,
               "Successfully published the project file(s) in QGIS Server.")
      [] kind = "UNPUBLISH" ->
           ResponseCodes_publish_project_file_log(resp,
               "Successfully deleted the Service (data remains in the database).")

JsonExc == {"user", "raw"}

remote_operation_raw_transport(record) ==
    /\ pc = "remote_operation"
    /\ IF process_type \notin {"VALIDATE", "PUBLISH", "UNPUBLISH"}
       THEN Raise("user") /\ UNCHANGED <<sent, answers, log>>
       ELSE IF get_token(token).exc # "none"
       THEN Raise(get_token(token).exc) /\ UNCHANGED <<sent, answers, log>>
       ELSE /\ sent' = Append(sent, RemoteOp(process_type))
            /\ \E r \in {[exc |-> "raw", answer |-> Recorded(record, TransportFailure),
                          log |-> <<>>]}
                        \cup {[exc |-> Interpret(process_type, resp, json_exc),
                               answer |-> Recorded(record, resp),
                               log |-> RecordedLog(record, InterpretLog(process_type, resp))] :
                                 resp \in Responses({NoBody}), json_exc \in JsonExc} :
                  /\ answers' = answers \o r.answer
                  /\ log' = log \o r.log
                  /\ IF r.exc = "none" THEN Goto("restore_original_project_file")
                     ELSE Raise(r.exc)
    /\ UNCHANGED <<process_type, session, workspace, calls>>

\* validate_project_file, publish_project_file, unpublish_project_file, or
\* the else branch of process_algorithm; a RequestException of the
\* transport is re-raised as a UserMessageException
remote_operation(record) ==
    /\ pc = "remote_operation"
    /\ IF process_type \notin {"VALIDATE", "PUBLISH", "UNPUBLISH"}
       THEN Raise("user") /\ UNCHANGED <<sent, answers, log>>
       ELSE IF get_token(token).exc # "none"
       THEN Raise(get_token(token).exc) /\ UNCHANGED <<sent, answers, log>>
       ELSE /\ sent' = Append(sent, RemoteOp(process_type))
            /\ \E r \in {[exc |-> "user", answer |-> Recorded(record, TransportFailure),
                          log |-> <<>>]}
                        \cup {[exc |-> Interpret(process_type, resp, json_exc),
                               answer |-> Recorded(record, resp),
                               log |-> RecordedLog(record, InterpretLog(process_type, resp))] :
                                 resp \in Responses({NoBody}), json_exc \in JsonExc} :
                  /\ answers' = answers \o r.answer
                  /\ log' = log \o r.log
                  /\ IF r.exc = "none" THEN Goto("restore_original_project_file")
                     ELSE Raise(r.exc)
    /\ UNCHANGED <<process_type, session, workspace, calls>>

restore_original_project_file ==
    /\ pc = "restore_original_project_file"
    /\ project' = [file |-> ctl_file.src_qgs_project_name, dirty |-> FALSE]
    /\ restored' = TRUE
    /\ Goto("delete_dir_file")
    /\ UNCHANGED <<process_type, session, registry, qgs_layers, ctl_file, disk, files, gpkg, zip_entries, manifest, writes, repointed,
                   cwd, sent, answers, attempts, calls, log>>

\* one iteration of "for dummy in range(5)" when keep_files is "No", else
\* the whole function
delete_dir_file_no_break ==
    /\ pc = "delete_dir_file"
    /\ IF ctl_file.keep_files = "No"
       THEN \E ok \in BOOLEAN :
               /\ attempts' = Append(attempts, ok)
               /\ disk' = IF ok THEN disk \ {ctl_file.control_file_dir} ELSE disk
               /\ log' = IF ok THEN Append(log, LogEntry("INFO", 0,
                                       "Deleting temporary directory and content", FALSE))
                         ELSE log
               /\ IF Len(attempts') = MaxDeleteAttempts THEN Return
                  ELSE Goto("delete_dir_file")
       ELSE Return /\ UNCHANGED <<attempts, disk, log>>
    /\ UNCHANGED <<process_type, session, registry, project, qgs_layers, ctl_file, files,
                   gpkg, zip_entries, manifest, writes, repointed, cwd, sent, answers, restored, calls>>

delete_dir_file_retry_forever ==
    /\ pc = "delete_dir_file"
    /\ IF ctl_file.keep_files = "No"
       THEN \E ok \in BOOLEAN :
               /\ attempts' = IF Len(attempts) < MaxDeleteAttempts
                               THEN Append(attempts, ok) ELSE <<ok>>
               /\ disk' = IF ok THEN disk \ {ctl_file.control_file_dir} ELSE disk
               /\ log' = IF ok THEN Append(log, LogEntry("INFO", 0,
                                       "Deleting temporary directory and content", FALSE))
                         ELSE log
               /\ IF ok THEN Return ELSE Goto("delete_dir_file")
       ELSE Return /\ UNCHANGED <<attempts, disk, log>>
    /\ UNCHANGED <<process_type, session, registry, project, qgs_layers, ctl_file, files,
                   gpkg, zip_entries, manifest, writes, repointed, cwd, sent, answers, restored, calls>>

delete_dir_file ==
    /\ pc = "delete_dir_file"
    /\ IF ctl_file.keep_files = "No"
       THEN \E ok \in BOOLEAN :
               /\ attempts' = Append(attempts, ok)
               /\ disk' = IF ok THEN disk \ {ctl_file.control_file_dir} ELSE disk
               /\ log' = IF ok THEN Append(log, LogEntry("INFO", 0,
                                       "Deleting temporary directory and content", FALSE))
                         ELSE log
               /\ IF ok \/ Len(attempts') = MaxDeleteAttempts THEN Return
                  ELSE Goto("delete_dir_file")
       ELSE Return /\ UNCHANGED <<attempts, disk, log>>
    /\ UNCHANGED <<process_type, session, registry, project, qgs_layers, ctl_file, files,
                   gpkg, zip_entries, manifest, writes, repointed, cwd, sent, answers, restored, calls>>

(***************************************************************************)
(* Login: DdrLogin.processAlgorithm, request by request                    *)
(***************************************************************************)
\* ControlFile(), read_parameters: a KeyError on the authentication
\* configuration is re-raised as a UserMessageException
login_read_parameters ==
    /\ pc = "idle"
    /\ process_type' = "LOGIN"
    /\ \E auth_ok \in BOOLEAN :
          IF auth_ok THEN pc' = "create_access_token" /\ outcome' = "running"
          ELSE Raise("user")
    /\ UNCHANGED <<session, workspace, sent, answers, calls, log>>

\* Utils.create_access_token; a RequestException of the transport is
\* re-raised as a UserMessageException
create_access_token(record) ==
    /\ pc = "create_access_token"
    /\ sent' = Append(sent, Request("login", "POST", None))
    /\ \E r \in {[exc |-> "user", slot |-> token,
                  answer |-> Recorded(record, TransportFailure), log |-> <<>>]}
                \cup {[exc |-> ResponseCodes_create_access_token(token, resp, json_exc).exc,
                       slot |-> ResponseCodes_create_access_token(token, resp, json_exc).slot,
                       answer |-> Recorded(record, resp),
                       log |-> RecordedLog(record, ResponseCodes_create_access_token_log(resp))] :
                         resp \in Responses(LoginBodies), json_exc \in JsonExc} :
          /\ token' = r.slot
          /\ answers' = answers \o r.answer
          /\ log' = log \o r.log
          /\ IF r.exc = "none" THEN Goto("read_csz_themes") ELSE Raise(r.exc)
    /\ UNCHANGED <<process_type, json_theme, json_department, json_email, workspace, calls>>

Lookup_continue(op, catalog, catalog_after, Bodies, record, next) ==
    IF get_token(token).exc # "none"
    THEN Raise(get_token(token).exc) /\ UNCHANGED <<sent, answers, log>>
         /\ catalog_after = catalog
    ELSE /\ sent' = Append(sent, Request(op, "GET", token))
         /\ \E r \in {[exc |-> "user", stored |-> catalog,
                       answer |-> Recorded(record, TransportFailure), log |-> <<>>]}
                     \cup {[exc |-> ResponseCodes_read(op, catalog, resp, json_exc).exc,
                            stored |-> ResponseCodes_read(op, catalog, resp, json_exc).stored,
                            answer |-> Recorded(record, resp),
                            log |-> RecordedLog(record, ResponseCodes_read_log(resp))] :
                              resp \in Responses(Bodies), json_exc \in JsonExc} :
               /\ catalog_after = r.stored
               /\ answers' = answers \o r.answer
               /\ log' = log \o r.log
               /\ IF next = "returned" THEN (IF r.exc # "none" THEN Raise(r.exc) ELSE Return)
                  ELSE Goto(next)

\* what read_csz_themes, read_ddr_departments and read_user_email share:
\* the headers are built first, with get_token, then the request is sent
\* and the answer interpreted.  catalog is the catalog's value before the
\* step, catalog_after its value after it.
Lookup(op, catalog, catalog_after, Bodies, record, next) ==
    IF get_token(token).exc # "none"
    THEN Raise(get_token(token).exc) /\ UNCHANGED <<sent, answers, log>>
         /\ catalog_after = catalog
    ELSE /\ sent' = Append(sent, Request(op, "GET", token))
         /\ \E r \in {[exc |-> "user", stored |-> catalog,
                       answer |-> Recorded(record, TransportFailure), log |-> <<>>]}
                     \cup {[exc |-> ResponseCodes_read(op, catalog, resp, json_exc).exc,
                            stored |-> ResponseCodes_read(op, catalog, resp, json_exc).stored,
                            answer |-> Recorded(record, resp),
                            log |-> RecordedLog(record, ResponseCodes_read_log(resp))] :
                              resp \in Responses(Bodies), json_exc \in JsonExc} :
               /\ catalog_after = r.stored
               /\ answers' = answers \o r.answer
               /\ log' = log \o r.log
               /\ IF r.exc # "none" THEN Raise(r.exc)
                  ELSE IF next = "returned" THEN Return ELSE Goto(next)

read_csz_themes(Bodies, record) ==
    /\ pc = "read_csz_themes"
    /\ Lookup("czs_themes", json_theme, json_theme', Bodies, record,
              "read_ddr_departments")
    /\ UNCHANGED <<process_type, token, json_department, json_email, workspace, calls>>

read_ddr_departments(Bodies, record) ==
    /\ pc = "read_ddr_departments"
    /\ Lookup("ddr_departments", json_department, json_department', Bodies, record,
              "read_user_email")
    /\ UNCHANGED <<process_type, token, json_theme, json_email, workspace, calls>>

read_user_email(Bodies, record) ==
    /\ pc = "read_user_email"
    /\ Lookup("ddr_my_email", json_email, json_email', Bodies, record, "returned")
    /\ UNCHANGED <<process_type, token, json_theme, json_department, workspace, calls>>

(***************************************************************************)
(* The session: login, validate, publish and unpublish runs, one at a time *)
(***************************************************************************)
Next ==
    \/ UserEditsProject
    \/ UserSavesProject
    \/ process_algorithm(ProcessTypes)
    \/ copy_qgis_project_file(PipelineLayerLists)
    \/ copy_layer_gpkg({FALSE})
    \/ set_layer_data_source
    \/ create_json_control_file
    \/ create_zip_file
    \/ remote_operation(FALSE)
    \/ restore_original_project_file
    \/ delete_dir_file
    \/ login_read_parameters
    \/ create_access_token(FALSE)
    \/ read_csz_themes(SessionThemeBodies, FALSE)
    \/ read_ddr_departments(SessionDepartmentBodies, FALSE)
    \/ read_user_email(SessionEmailBodies, FALSE)
    \/ processAlgorithm_return

Spec == Init /\ [][Next]_vars


(***************************************************************************)
(* The login runs alone, with the catalogs a server can return and the     *)
(* answers recorded                                                        *)
(***************************************************************************)
ThemeComma == Theme("uuidC", <<"a", ",", "e">>, <<",">>)

ThemeNoUuid == Theme(Absent, <<"a">>, <<"e">>)

LoginThemeBodies ==
    {ListBody(<<ThemeA>>), ListBody(<<ThemeA, ThemeComma>>), ListBody(<<ThemeNoUuid>>)}

LoginDepartmentBodies == {ListBody(<<Department("nrcan")>>), ListBody(<<Department(Absent)>>)}

LoginEmailBodies == {ListBody(<<"user@nrcan">>)}

NextLogin ==
    \/ login_read_parameters
    \/ create_access_token(TRUE)
    \/ read_csz_themes(LoginThemeBodies, TRUE)
    \/ read_ddr_departments(LoginDepartmentBodies, TRUE)
    \/ read_user_email(LoginEmailBodies, TRUE)
    \/ processAlgorithm_return

SpecLogin == Init /\ [][NextLogin]_vars

(***************************************************************************)
(* Login, validate, publish and unpublish runs on a saved project whose    *)
(* two project files hold one vector layer, with the answers and the log   *)
(* lines of the interpreter recorded                                       *)
(***************************************************************************)
RemoteLayerLists == {<<Layer(<<"a">>, "vector")>>}

NextRemote ==
    \/ process_algorithm(ProcessTypes)
    \/ copy_qgis_project_file(RemoteLayerLists)
    \/ copy_layer_gpkg({FALSE})
    \/ set_layer_data_source
    \/ create_json_control_file
    \/ create_zip_file
    \/ remote_operation(TRUE)
    \/ restore_original_project_file
    \/ delete_dir_file
    \/ login_read_parameters
    \/ create_access_token(TRUE)
    \/ read_csz_themes(SessionThemeBodies, TRUE)
    \/ read_ddr_departments(SessionDepartmentBodies, TRUE)
    \/ read_user_email(SessionEmailBodies, TRUE)
    \/ processAlgorithm_return

SpecRemote == Init /\ [][NextRemote]_vars

(***************************************************************************)
(* Utils.process_algorithm called with any process type                    *)
(***************************************************************************)
AnyProcessTypes == ProcessTypes \cup {"OTHER"}

NextKinds ==
    \/ process_algorithm(AnyProcessTypes)
    \/ copy_qgis_project_file(RemoteLayerLists)
    \/ copy_layer_gpkg({FALSE})
    \/ set_layer_data_source
    \/ create_json_control_file
    \/ create_zip_file
    \/ remote_operation(FALSE)
    \/ restore_original_project_file
    \/ delete_dir_file
    \/ login_read_parameters
    \/ create_access_token(FALSE)
    \/ read_csz_themes(SessionThemeBodies, FALSE)
    \/ read_ddr_departments(SessionDepartmentBodies, FALSE)
    \/ read_user_email(SessionEmailBodies, FALSE)
    \/ processAlgorithm_return

SpecKinds == Init /\ [][NextKinds]_vars

(***************************************************************************)
(* The same runs under the scheduling of the code: processAlgorithm is     *)
(* synchronous and single-threaded, so once the host has started a run     *)
(* its next statement is executed; a remote request returns or fails.      *)
(* When a run starts is up to the user: no fairness on the first step.     *)
(***************************************************************************)
RunSteps ==
    \/ copy_qgis_project_file(RemoteLayerLists)
    \/ copy_layer_gpkg({FALSE})
    \/ set_layer_data_source
    \/ create_json_control_file
    \/ create_zip_file
    \/ remote_operation(FALSE)
    \/ restore_original_project_file
    \/ delete_dir_file
    \/ create_access_token(FALSE)
    \/ read_csz_themes(SessionThemeBodies, FALSE)
    \/ read_ddr_departments(SessionDepartmentBodies, FALSE)
    \/ read_user_email(SessionEmailBodies, FALSE)
    \/ processAlgorithm_return

SpecTermination == Init /\ [][NextKinds]_vars /\ WF_vars(RunSteps)

(***************************************************************************)
(* The container specification: the stages up to the manifest, where the   *)
(* project files hold spatial vector layers, a table (a vector layer       *)
(* without geometry) and a raster, and the writer may return an error.     *)
(* No login precedes the run, so the manifest stage is where it ends.      *)
(***************************************************************************)
ContainerLayers ==
    {Layer(<<"a">>, "vector"), Layer(<<"e">>, "vector"),
     Layer(<<"e", "a">>, "table"), Layer(<<"a", "e">>, "raster")}

\* the layers of a project have distinct identifiers
ContainerLayerLists ==
    {layers \in SeqsUpTo(ContainerLayers, MaxLayers) :
        \A i, j \in 1..Len(layers) : layers[i] = layers[j] => i = j}

NextContainer ==
    \/ process_algorithm({"VALIDATE"})
    \/ copy_qgis_project_file(ContainerLayerLists)
    \/ copy_layer_gpkg(BOOLEAN)
    \/ set_layer_data_source
    \/ create_json_control_file
    \/ processAlgorithm_return

SpecContainer == Init /\ [][NextContainer]_vars

(***************************************************************************)
(* The layer registry alone: add_layer called with any short name          *)
(***************************************************************************)
RegistryShortNames ==
    {NoShortName, <<>>, <<"A">>, <<"a">>, <<"a", " ">>, <<"a", "_">>, <<"e'">>, <<"e">>,
     <<"euro">>}

Call(short_name, language, exc) ==
    [short_name |-> short_name, language |-> language, exc |-> exc]

init_project_file_call ==
    /\ calls # <<>>
    /\ registry' = init_project_file
    /\ calls' = <<>>
    /\ UNCHANGED <<pc, process_type, outcome, session, project, qgs_layers, ctl_file, disk,
                   files, gpkg, cwd, sent, answers, restored, attempts, zip_entries, manifest, writes, repointed, log>>

add_layer_call ==
    /\ Len(calls) < MaxCalls
    /\ \E short_name \in RegistryShortNames, language \in {"EN", "FR"} :
          LET r == add_layer(registry, short_name, language)
          IN /\ registry' = r.reg
             /\ calls' = Append(calls, Call(short_name, language, r.exc))
    /\ UNCHANGED <<pc, process_type, outcome, session, project, qgs_layers, ctl_file, disk,
                   files, gpkg, cwd, sent, answers, restored, attempts, zip_entries, manifest, writes, repointed, log>>

NextRegistry ==
    \/ init_project_file_call
    \/ add_layer_call

SpecRegistry == Init /\ [][NextRegistry]_vars

(***************************************************************************)
(* The short-name specification: get_layer_short_name applied to every     *)
(* declared short name of up to MaxNameLen characters, and to its own      *)
(* results.  calls holds the last call and the call on its result.         *)
(***************************************************************************)
Characters == {"A", "a", "E", "e", "E'", "e'", "acute", "euro", " ", "_"}

DeclaredShortNames == SeqsUpTo(Characters, MaxNameLen) \ {<<>>}

\* one call of get_layer_short_name: the shortName() of the layer and the
\* value returned
KeyCall(short_name, key) == [short_name |-> short_name, key |-> key]

get_layer_short_name_call ==
    /\ \E short_name \in DeclaredShortNames :
          calls' = <<KeyCall(short_name, get_layer_short_name(short_name))>>
    /\ UNCHANGED <<pc, process_type, outcome, session, workspace, sent, answers, log>>

\* the derivation applied to the key it returned
get_layer_short_name_again ==
    /\ Len(calls) = 1
    /\ calls[1].key # <<>>
    /\ calls' = Append(calls, KeyCall(calls[1].key, get_layer_short_name(calls[1].key)))
    /\ UNCHANGED <<pc, process_type, outcome, session, workspace, sent, answers, log>>

NextShortName ==
    \/ get_layer_short_name_call
    \/ get_layer_short_name_again

SpecShortName == Init /\ [][NextShortName]_vars

(***************************************************************************)
(* The database-direct export path (ddr_qgis.py, class DdrPyQgis).  The    *)
(* project holds up to MaxLayers layers; results[i] is what the operation  *)
(* on layer i does when it is tried: "ok", "error" (exportLayer returns a  *)
(* non-zero error) or "raise" (an exception).  A method returns            *)
(* [exc, value, done]: done is the set of layers the operation was         *)
(* carried out for.  calls holds the last call and the one before it.      *)
(***************************************************************************)
\* the loop of exportLayersInDB from layer i on: "return True" is inside
\* the loop, under "if error == 0"
RECURSIVE exportLayersInDB_loop(_, _)
exportLayersInDB_loop(results, i) ==
    IF i > Len(results) THEN [exc |-> "none", value |-> FALSE, done |-> {}]
    ELSE IF results[i] = "raise" THEN [exc |-> "none", value |-> FALSE, done |-> {}]
    ELSE IF results[i] = "ok" THEN [exc |-> "none", value |-> TRUE, done |-> {i}]
    ELSE exportLayersInDB_loop(results, i + 1)

exportLayersInDB(results) == exportLayersInDB_loop(results, 1)

\* "return True" is the last statement of the loop body
removeLayersFromDB(results) ==
    IF results = <<>> \/ results[1] = "raise"
    THEN [exc |-> "none", value |-> FALSE, done |-> {}]
    ELSE [exc |-> "none", value |-> TRUE, done |-> {1}]

setLayersDataSource(results) ==
    IF results = <<>> \/ results[1] = "raise"
    THEN [exc |-> "none", value |-> FALSE, done |-> {}]
    ELSE [exc |-> "none", value |-> TRUE, done |-> {1}]

DbCall(op, results, r) ==
    [op |-> op, results |-> results, exc |-> r.exc, value |-> r.value, done |-> r.done]

\* the last call and the one before it
LastTwo(made, call) == IF made = <<>> THEN <<call>> ELSE <<made[Len(made)], call>>

exportLayersInDB_call ==
    /\ \E results \in SeqsUpTo({"ok", "error", "raise"}, MaxLayers) :
          calls' = LastTwo(calls, DbCall("exportLayersInDB", results,
                                         exportLayersInDB(results)))
    /\ UNCHANGED <<pc, process_type, outcome, session, workspace, sent, answers, log>>

removeLayersFromDB_call ==
    /\ \E results \in SeqsUpTo({"ok", "raise"}, MaxLayers) :
          calls' = LastTwo(calls, DbCall("removeLayersFromDB", results,
                                         removeLayersFromDB(results)))
    /\ UNCHANGED <<pc, process_type, outcome, session, workspace, sent, answers, log>>

setLayersDataSource_call ==
    /\ \E results \in SeqsUpTo({"ok", "raise"}, MaxLayers) :
          calls' = LastTwo(calls, DbCall("setLayersDataSource", results,
                                         setLayersDataSource(results)))
    /\ UNCHANGED <<pc, process_type, outcome, session, workspace, sent, answers, log>>

NextDatabase ==
    \/ exportLayersInDB_call
    \/ removeLayersFromDB_call
    \/ setLayersDataSource_call

SpecDatabase == Init /\ [][NextDatabase]_vars

(***************************************************************************)
(* Utils.push_info.  A text is a sequence of characters, "nl" standing     *)
(* for the line feed; "date_time" stands for what get_date_time returns.   *)
(* calls holds the last call: its arguments and the lines it gave to       *)
(* feedback.pushInfo.                                                      *)
(***************************************************************************)
\* suppl.split("\n"), current being the line read so far
RECURSIVE split(_, _)
split(text, current) ==
    IF text = <<>> THEN <<current>>
    ELSE IF Head(text) = "nl" THEN <<current>> \o split(Tail(text), <<>>)
    ELSE split(Tail(text), Append(current, Head(text)))

\* len(line) - len(line.lstrip())
RECURSIVE leading_sp(_)
leading_sp(line) ==
    IF line = <<>> \/ Head(line) # " " THEN 0 ELSE 1 + leading_sp(Tail(line))

\* "." * n
RECURSIVE Dots(_)
Dots(n) == IF n = 0 THEN <<>> ELSE <<".">> \o Dots(n - 1)

\* str.replace: every occurrence of old, from left to right, becomes new;
\* push_info gives an empty new whenever old is empty, which leaves the text
RECURSIVE replace(_, _, _)
replace(text, old, new) ==
    IF old = <<>> \/ Len(text) < Len(old) THEN text
    ELSE IF SubSeq(text, 1, Len(old)) = old
    THEN new \o replace(SubSeq(text, Len(old) + 1, Len(text)), old, new)
    ELSE <<Head(text)>> \o replace(Tail(text), old, new)

\* one line given to feedback.pushInfo
Pushed(date_time, message, line) ==
    [date_time |-> date_time, message |-> message, line |-> line]

\* the body of the loop of push_info
push_line(message, line, pad_with_dot) ==
    Pushed("date_time", message,
           IF pad_with_dot
           THEN replace(line, SubSeq(line, 1, leading_sp(line)), Dots(leading_sp(line)))
           ELSE line)

push_info(message, suppl, pad_with_dot) ==
    LET text_lines == split(suppl, <<>>)
    IN [i \in 1..Len(text_lines) |-> push_line(message, text_lines[i], pad_with_dot)]

Texts == SeqsUpTo({" ", "a", "nl"}, MaxTextLen)

PushInfoCall(message, suppl, pad_with_dot, pushed_lines) ==
    [message |-> message, suppl |-> suppl, pad_with_dot |-> pad_with_dot,
     pushed |-> pushed_lines]

push_info_call ==
    /\ \E message \in {"INFO: ", "ERROR: "}, suppl \in Texts, pad_with_dot \in BOOLEAN :
          calls' = <<PushInfoCall(message, suppl, pad_with_dot,
                                  push_info(message, suppl, pad_with_dot))>>
    /\ UNCHANGED <<pc, process_type, outcome, session, workspace, sent, answers, log>>

NextPushInfo == push_info_call

SpecPushInfo == Init /\ [][NextPushInfo]_vars

(***************************************************************************)
(* The catalog specification: DdrInfo's ingestion and read operations,     *)
(* applied in any order to bodies of every shape a JSON answer can have.   *)
(* A body of shape "object" or "text" stands for a non-empty one.          *)
(***************************************************************************)
ThemeNoTitle ==
    [shape |-> "object", theme_uuid |-> "uuidA", title_shape |-> Absent,
     en |-> AbsentText, fr |-> AbsentText]

ThemeTextTitle ==
    [shape |-> "object", theme_uuid |-> "uuidA", title_shape |-> "text",
     en |-> AbsentText, fr |-> AbsentText]

ThemeNoFr == Theme("uuidA", <<"a">>, AbsentText)

TextTheme ==
    [shape |-> "text", theme_uuid |-> Absent, title_shape |-> Absent,
     en |-> AbsentText, fr |-> AbsentText]

TextDepartment == [shape |-> "text", subpath |-> Absent]

ObjectBody == [shape |-> "object", items |-> <<>>]

CatalogThemeBodies ==
    {ListBody(<<>>), ListBody(<<ThemeA>>), ListBody(<<ThemeA, ThemeComma>>),
     ListBody(<<ThemeNoUuid>>), ListBody(<<ThemeNoTitle>>), ListBody(<<ThemeTextTitle>>),
     ListBody(<<ThemeA, ThemeNoFr>>), ListBody(<<TextTheme>>), ObjectBody}

CatalogDepartmentBodies ==
    {ListBody(<<>>), ListBody(<<Department("nrcan")>>), ListBody(<<Department(Absent)>>),
     ListBody(<<TextDepartment>>), ObjectBody}

CatalogEmailBodies == {ListBody(<<"user@nrcan">>), ObjectBody}

CatalogTitles == {<<>>, <<"a">>, <<"e">>, <<"a", ";", "e">>}

\* one call of a DdrInfo method: its argument, what it raised and, for a
\* read, what it returned
CatalogCall(op, arg, exc, value) == [op |-> op, arg |-> arg, exc |-> exc, value |-> value]

add_themes_call ==
    /\ Len(calls) < MaxCalls
    /\ \E body \in CatalogThemeBodies :
          LET r == add_themes(body)
          IN /\ json_theme' = r.stored
             /\ calls' = Append(calls, CatalogCall("add_themes", body, r.exc, None))
    /\ UNCHANGED <<pc, process_type, outcome, token, json_department, json_email, workspace,
                   sent, answers, log>>

add_departments_call ==
    /\ Len(calls) < MaxCalls
    /\ \E body \in CatalogDepartmentBodies :
          LET r == add_departments(body)
          IN /\ json_department' = r.stored
             /\ calls' = Append(calls, CatalogCall("add_departments", body, r.exc, None))
    /\ UNCHANGED <<pc, process_type, outcome, token, json_theme, json_email, workspace,
                   sent, answers, log>>

add_email_call ==
    /\ Len(calls) < MaxCalls
    /\ \E body \in CatalogEmailBodies :
          LET r == add_email(body)
          IN /\ json_email' = r.stored
             /\ calls' = Append(calls, CatalogCall("add_email", body, r.exc, None))
    /\ UNCHANGED <<pc, process_type, outcome, token, json_theme, json_department, workspace,
                   sent, answers, log>>

get_theme_uuid_call ==
    /\ Len(calls) < MaxCalls
    /\ \E title \in CatalogTitles :
          LET r == get_theme_uuid(json_theme, title)
          IN calls' = Append(calls, CatalogCall("get_theme_uuid", title, r.exc, r.value))
    /\ UNCHANGED <<pc, process_type, outcome, session, workspace, sent, answers, log>>

get_theme_lst_call ==
    /\ Len(calls) < MaxCalls
    /\ \E language \in {"en", "fr"} :
          LET r == get_theme_lst(json_theme, language)
          IN calls' = Append(calls, CatalogCall("get_theme_lst", language, r.exc, r.value))
    /\ UNCHANGED <<pc, process_type, outcome, session, workspace, sent, answers, log>>

get_department_lst_call ==
    /\ Len(calls) < MaxCalls
    /\ LET r == get_department_lst(json_department)
       IN calls' = Append(calls, CatalogCall("get_department_lst", None, r.exc, r.value))
    /\ UNCHANGED <<pc, process_type, outcome, session, workspace, sent, answers, log>>

NextCatalog ==
    \/ add_themes_call
    \/ add_departments_call
    \/ add_email_call
    \/ get_theme_uuid_call
    \/ get_theme_lst_call
    \/ get_department_lst_call

SpecCatalog == Init /\ [][NextCatalog]_vars


(***************************************************************************)
(* Properties                                                              *)
(***************************************************************************)
PipelineRun == process_type \notin {None, "LOGIN"}

DirCreated == ctl_file.control_file_dir \in DirNames

LastCall == calls[Len(calls)]

\* C1: a validate, publish or unpublish run that fails after its working
\* directory was created has still executed restore_original_project_file
\* and then delete_dir_file when it ends
C1_FailedRunRestoresAndCleans ==
    (pc = "returned" /\ PipelineRun /\ outcome # "ok" /\ DirCreated)
        => (restored /\ (ctl_file.keep_files = "No" => attempts # <<>>))

\* C2: no run of a login, validate, publish or unpublish processAlgorithm
\* lets an exception escape to the host
C2_NoExceptionEscapes == outcome # "escaped"

\* C3: every authenticated request that was sent carries a token, and an
\* authenticated operation reached while the token slot is empty ends the
\* run with the logged user error without sending a request
C3_NoRequestWithoutToken ==
    /\ [](\A i \in 1..Len(sent) : Authenticated(sent[i]) => sent[i].bearer # None)
    /\ [][(token = None /\ pc \in {"remote_operation", "read_csz_themes",
                                   "read_ddr_departments", "read_user_email"})
             => (sent' = sent /\ pc' = "returned" /\ outcome' = "logged")]_vars

C3_Witness ==
    /\ pc = "returned" /\ process_type = "PUBLISH" /\ outcome = "logged"
    /\ token = None /\ sent = <<>> /\ "ddr_publish.zip" \in files

\* C4: once the token slot holds a token, no later step of any run makes
\* it empty again
C4_TokenNeverEmptiedAgain == [][token # None => token' # None]_vars

\* C5 as stated: after a login run whose four requests were all answered
\* 200 with well-formed bodies, the slot holds the access_token of the
\* login answer and each catalog equals the body returned for it
WellFormedTheme(item) ==
    /\ item.shape = "object" /\ item.theme_uuid # Absent /\ item.title_shape = "object"
    /\ item.en # AbsentText /\ item.fr # AbsentText

WellFormedDepartment(item) == item.shape = "object" /\ item.subpath # Absent

AllAnswered200 ==
    /\ pc = "returned" /\ process_type = "LOGIN" /\ Len(answers) = 4
    /\ \A i \in 1..4 : answers[i].status = 200 /\ answers[i].json_ok
    /\ answers[1].body.access_token \in Tokens /\ answers[1].body.complete
    /\ \A i \in 1..Len(answers[2].body.items) : WellFormedTheme(answers[2].body.items[i])
    /\ \A i \in 1..Len(answers[3].body.items) : WellFormedDepartment(answers[3].body.items[i])

C5_CatalogsHoldReturnedEntries ==
    AllAnswered200 =>
        /\ get_token(token) = [exc |-> "none", value |-> answers[1].body.access_token]
        /\ json_theme = answers[2].body
        /\ json_department = answers[3].body
        /\ json_email = answers[4].body

\* the returned theme entries with every comma of the English and French
\* titles replaced by a semicolon
SemicolonTitles(body) ==
    ListBody([i \in 1..Len(body.items) |->
                 [body.items[i] EXCEPT !.en = MapChars(@, "comma"),
                                       !.fr = MapChars(@, "comma")]])

\* C5 (amended): after a login run whose four requests were all answered
\* 200 with well-formed bodies, the slot holds the access_token of the
\* login answer, the department and email catalogs equal the returned
\* bodies, and the theme catalog holds the returned entries with every
\* comma of their English and French titles replaced by a semicolon
C5_CatalogsHoldEntriesWithSemicolons ==
    AllAnswered200 =>
        /\ get_token(token) = [exc |-> "none", value |-> answers[1].body.access_token]
        /\ json_theme = SemicolonTitles(answers[2].body)
        /\ json_department = answers[3].body
        /\ json_email = answers[4].body

C5_Witness ==
    /\ AllAnswered200 /\ outcome = "ok"
    /\ answers[2].body = ListBody(<<ThemeA, ThemeComma>>)
    /\ answers[1].body.access_token = "tokB"

\* C6: when the live project is dirty, copy_qgis_project_file ends the run
\* with the logged user error, creating no directory and leaving the live
\* project as it was
C6_DirtyProjectFailsBeforeMkdtemp ==
    [][(pc = "copy_qgis_project_file" /\ project.dirty)
          => (pc' = "returned" /\ outcome' = "logged" /\ disk' = disk
              /\ project' = project /\ ~DirCreated')]_vars

C6_Witness ==
    /\ pc = "returned" /\ PipelineRun /\ outcome = "logged" /\ project.dirty
    /\ ~DirCreated /\ project.file = "orig.qgs"

\* the short name is empty, missing, or already registered in the locale
Offending(reg, short_name, language) ==
    \/ short_name \in {NoShortName, <<>>}
    \/ InSeq(short_name, IF language = "EN" THEN reg.en ELSE reg.fr)

\* C7: an add_layer call whose short name is empty, missing or already
\* registered in the same locale raises the user error and leaves both
\* locales' lists exactly as they were
C7_RejectedAddLayerLeavesRegistry ==
    [][(Len(calls') = Len(calls) + 1
        /\ Offending(registry, calls'[Len(calls')].short_name, calls'[Len(calls')].language))
          => (calls'[Len(calls')].exc = "user" /\ registry' = registry)]_vars

C7_Witness ==
    /\ calls # <<>> /\ LastCall.exc = "user" /\ LastCall.language = "FR"
    /\ InSeq(LastCall.short_name, registry.fr) /\ registry.en # <<>>

CallsOf(language) == SelectSeq(calls, LAMBDA c : c.language = language)

UniqueNonEmpty(cs) ==
    /\ \A i \in 1..Len(cs) : cs[i].short_name \notin {NoShortName, <<>>}
    /\ \A i, j \in 1..Len(cs) : i # j => cs[i].short_name # cs[j].short_name

\* C8: when the short names given to add_layer are non-empty and unique
\* within each locale, every call succeeds and get_nbr_layers is the
\* maximum of the two locales' layer counts
C8_UniqueNamesAllRegistered ==
    (UniqueNonEmpty(CallsOf("EN")) /\ UniqueNonEmpty(CallsOf("FR")))
        => /\ \A i \in 1..Len(calls) : calls[i].exc = "none"
           /\ get_nbr_layers(registry) = Max(Len(CallsOf("EN")), Len(CallsOf("FR")))

C8_Witness ==
    /\ Len(calls) = 3 /\ UniqueNonEmpty(CallsOf("EN")) /\ UniqueNonEmpty(CallsOf("FR"))
    /\ Len(CallsOf("FR")) = 2 /\ Len(CallsOf("EN")) = 1
    /\ \E i \in 1..2 : CallsOf("FR")[i].short_name = CallsOf("EN")[1].short_name

UniqueKeys(names) ==
    \A i, j \in 1..Len(names) :
        i # j => get_layer_short_name(names[i]) # get_layer_short_name(names[j])

\* C9: no two layers registered in one locale have the same container key
C9_UniqueContainerKeys == UniqueKeys(registry.en) /\ UniqueKeys(registry.fr)

\* C10: delete_dir_file tries rmtree only when keep_files is "No", at most
\* 5 times and never again after a success, and it ends without raising;
\* with keep_files set the working directory is never deleted
C10_BoundedCleanup ==
    /\ [](/\ Len(attempts) <= 5
          /\ (attempts # <<>> => ctl_file.keep_files = "No")
          /\ \A i \in 1..(Len(attempts) - 1) : ~attempts[i]
          /\ (ctl_file.keep_files = "Yes" /\ DirCreated)
                => ctl_file.control_file_dir \in disk)
    /\ [][pc = "delete_dir_file"
            => \/ pc' = "returned" /\ outcome' = "ok"
               \/ pc' = "delete_dir_file" /\ ~attempts'[Len(attempts')]
                  /\ Len(attempts') < 5]_vars

C10_Witness ==
    /\ pc = "returned" /\ outcome = "ok" /\ PipelineRun
    /\ Len(attempts) = 3 /\ attempts[3] /\ ctl_file.control_file_dir \notin disk

\* every rmtree attempt of the run failed
DeletionBlocked == attempts # <<>> /\ \A i \in 1..Len(attempts) : ~attempts[i]

\* C11: when the five deletion attempts of the working directory have all
\* failed, the log of the run holds a cleanup warning
C11_CleanupWarningLogged ==
    (pc = "returned" /\ Len(attempts) = MaxDeleteAttempts /\ DeletionBlocked)
        => \E i \in 1..Len(log) : log[i].level = "WARNING"

\* C12: a directory is created only by the snapshot stage of a run on a
\* clean project, one per run and different from every directory that
\* exists; a run on a clean project has created its directory when it ends,
\* and when keep_files is "No" and deletion was not blocked the directory
\* no longer exists
C12_OneDirectoryPerRunNoResidue ==
    /\ [][disk' \ disk # {}
            => /\ pc = "copy_qgis_project_file" /\ ~project.dirty /\ ~DirCreated
               /\ ctl_file'.control_file_dir \notin disk
               /\ disk' = disk \cup {ctl_file'.control_file_dir}]_vars
    /\ []((pc = "returned" /\ PipelineRun /\ ~project.dirty)
            => /\ DirCreated
               /\ (ctl_file.keep_files = "No" /\ ~DeletionBlocked)
                     => ctl_file.control_file_dir \notin disk)

\* a request was answered in the step: answer is the response, operation
\* the request, lines what the interpreter pushed to the log
Answered == Len(answers') = Len(answers) + 1 /\ answers'[Len(answers')].status # 0

answer == answers'[Len(answers')]

operation == sent'[Len(sent')].op

lines == SubSeq(log', Len(log) + 1, Len(log'))

SuccessStatus(op) == IF op = "processes" THEN 204 ELSE 200

\* the body is what the operation expects: JSON, and for a login answered
\* 200 a token with the four fields that come with it
WellFormedAnswer ==
    /\ answer.json_ok
    /\ (operation = "login" /\ answer.status = 200)
          => (answer.body.access_token \in Tokens /\ answer.body.complete)

\* C13: for login, validate, publish and unpublish and every status, the
\* interpreter raises nothing and pushes INFO lines exactly when the status
\* is the success status of the operation (200, 200, 204, 204), else an
\* ERROR line with the status, which for a status other than 400, 401, 403
\* and 500 carries the reason phrase of the status
C13_InterpreterTotalAndNormalized ==
    [][(Answered /\ operation \in {"login", "validate", "processes"} /\ WellFormedAnswer)
         => /\ pc' # "returned"
            /\ IF answer.status = SuccessStatus(operation)
               THEN lines # <<>> /\ \A i \in 1..Len(lines) : lines[i].level = "INFO"
               ELSE /\ \A i \in 1..Len(lines) : lines[i].level = "ERROR"
                    /\ \E i \in 1..Len(lines) : lines[i].status = answer.status
                    /\ (answer.status \in ReasonPhrases \ {400, 401, 403, 500})
                          => \E i \in 1..Len(lines) :
                                /\ lines[i].status = answer.status
                                /\ lines[i].message = http_client_responses(answer.status)]_vars

\* C14: an answer with an error status whose body is not JSON ends the run
\* with the logged user error
C14_CorruptedErrorBodyRaises ==
    [][(Answered /\ answer.status >= 400 /\ ~answer.json_ok)
         => (pc' = "returned" /\ outcome' = "logged")]_vars

\* C15: a request that fails in the transport, whichever of the seven
\* remote calls it is, ends the run with the logged user error
C15_TransportFailureIsUserError ==
    [][(Len(answers') = Len(answers) + 1 /\ answers'[Len(answers')] = TransportFailure)
         => (pc' = "returned" /\ outcome' = "logged" /\ Len(sent') = Len(sent) + 1
             /\ operation \in {"login", "czs_themes", "ddr_departments", "ddr_my_email",
                               "validate", "processes"})]_vars

C15_Witness ==
    /\ pc = "returned" /\ process_type = "UNPUBLISH" /\ outcome = "logged"
    /\ answers = <<TransportFailure>> /\ sent[1].method = "DELETE" /\ ~restored

\* C16: when the remote operation of a validate, publish or unpublish run
\* is answered with an error status and a JSON body, the body is dumped to
\* the log as an ERROR line and the run goes on to restore the original
\* project and then to cleanup
C16_ErrorStatusStillRestores ==
    /\ [][(pc = "remote_operation" /\ Answered
           /\ answer.status # SuccessStatus(operation) /\ answer.json_ok)
            => /\ \E i \in 1..Len(lines) :
                     /\ lines[i].level = "ERROR" /\ lines[i].details
                     /\ lines[i].status = answer.status
               /\ pc' = "restore_original_project_file"]_vars
    /\ [][pc = "restore_original_project_file" => (restored' /\ pc' = "delete_dir_file")]_vars

\* the stages of process_algorithm, in the order of its statements
Stages ==
    <<"copy_qgis_project_file", "copy_layer_gpkg", "set_layer_data_source",
      "create_json_control_file", "create_zip_file", "remote_operation",
      "restore_original_project_file", "delete_dir_file">>

StageRank(stage) == CHOOSE i \in 1..Len(Stages) : Stages[i] = stage

IsStage(stage) == \E i \in 1..Len(Stages) : Stages[i] = stage

ArchiveExists == "ddr_publish.zip" \in files /\ Len(zip_entries) = Len(lst_file_to_zip)

C18_OneRequestPerRun ==
    /\ [](PipelineRun =>
            /\ Len(sent) <= 1
            /\ (sent # <<>>) =>
                  /\ token # None /\ sent[1].bearer = token
                  /\ sent[1].zip_file = "ddr_publish.zip" /\ ArchiveExists
                  /\ process_type \in {"VALIDATE", "PUBLISH", "UNPUBLISH"}
                  /\ (process_type = "VALIDATE")
                        => (sent[1].op = "validate" /\ sent[1].method = "POST")
                  /\ (process_type = "PUBLISH")
                        => (sent[1].op = "processes" /\ sent[1].method = "PUT")
                  /\ (process_type = "UNPUBLISH")
                        => (sent[1].op = "processes" /\ sent[1].method = "DELETE")
            /\ (process_type \notin {"VALIDATE", "PUBLISH", "UNPUBLISH"}) => sent = <<>>)
    /\ [][pc = "remote_operation" =>
            IF process_type \in {"VALIDATE", "PUBLISH", "UNPUBLISH"}
            THEN token # None => Len(sent') = 1
            ELSE sent' = <<>> /\ pc' = "returned" /\ outcome' = "logged"]_vars

C18_Witness ==
    /\ pc = "returned" /\ process_type = "UNPUBLISH" /\ outcome = "logged"
    /\ Len(sent) = 1 /\ sent[1].method = "DELETE" /\ sent[1].bearer = "tokA"

C18_WitnessOtherKind ==
    /\ pc = "returned" /\ process_type = "OTHER" /\ outcome = "logged"
    /\ sent = <<>> /\ ArchiveExists /\ token # None

LoginOrder == <<"login", "czs_themes", "ddr_departments", "ddr_my_email">>

\* the i-th request of the login run was answered and its interpretation
\* raised nothing
DidNotRaise(i) ==
    /\ answers[i].status # 0
    /\ answers[i].status \in ReasonPhrases
    /\ (answers[i].status = 200) =>
          /\ answers[i].json_ok
          /\ (i = 1) => (answers[1].body.access_token \in Tokens /\ answers[1].body.complete)
          /\ (i = 2) => \A k \in 1..Len(answers[2].body.items) :
                            WellFormedTheme(answers[2].body.items[k])
          /\ (i = 3) => \A k \in 1..Len(answers[3].body.items) :
                            WellFormedDepartment(answers[3].body.items[k])

\* C19: the requests of a login run are a prefix of login, czs_themes,
\* ddr_departments, ddr_my_email; a lookup is sent only while a token is
\* held and carries that token as bearer; a request is sent only when
\* every request before it was answered without raising
C19_LoginOrder ==
    /\ []((process_type = "LOGIN") =>
            /\ Len(sent) <= 4 /\ Len(answers) = Len(sent)
            /\ \A i \in 1..Len(sent) : sent[i].op = LoginOrder[i]
            /\ \A i \in 2..Len(sent) : token # None /\ sent[i].bearer = token
            /\ \A i \in 1..(Len(sent) - 1) : DidNotRaise(i))
    /\ [][(process_type = "LOGIN" /\ Len(sent') > Len(sent))
            => (Len(sent') = Len(sent) + 1 /\ outcome = "running")]_vars

C19_Witness ==
    /\ pc = "returned" /\ process_type = "LOGIN" /\ outcome # "ok"
    /\ Len(sent) = 3 /\ sent[3].bearer = "tokB"
    /\ answers[2].body = ListBody(<<ThemeA, ThemeComma>>)
    /\ answers[3].body = ListBody(<<Department(Absent)>>)

EntryNames == {zip_entries[i] : i \in 1..Len(zip_entries)}

\* C20: once create_zip_file has run, the archive holds the manifest, the
\* container and the project file of each configured locale, each once,
\* and nothing else
C20_ArchiveEntries ==
    ("ddr_publish.zip" \in files) =>
        /\ Cardinality(EntryNames) = Len(zip_entries)
        /\ EntryNames = {"ControlFile.json", "qgis_vector_layers.gpkg"}
                        \cup (IF ctl_file.qgis_project_file_en # "" THEN {"en.qgs"} ELSE {})
                        \cup (IF ctl_file.qgis_project_file_fr # "" THEN {"fr.qgs"} ELSE {})

(***************************************************************************)
(* The manifest, the container and the project context                     *)
(***************************************************************************)
\* the languages QGIS_FILE_EN and QGIS_FILE_FR of the run name a file for
ConfiguredLocales ==
    (IF ctl_file.qgis_project_file_en # "" THEN {"English"} ELSE {})
    \cup (IF ctl_file.qgis_project_file_fr # "" THEN {"French"} ELSE {})

OutputFile(language) == IF language = "English" THEN "en.qgs" ELSE "fr.qgs"

\* the title chosen on the form is one the theme catalog can resolve
ThemeResolves == get_theme_uuid(json_theme, ctl_file.csz_collection_theme).exc = "none"

\* C21: a run that reaches the manifest stage with a theme that resolves
\* completes the stage, with one locale configured as with two, and the
\* manifest then holds exactly one service_parameters block per configured
\* locale, naming that locale's output project file
C21_ManifestBlockPerLocale ==
    [][(pc = "create_json_control_file" /\ ThemeResolves)
        => /\ pc' = "create_zip_file"
           /\ Len(manifest'.service_parameters) = Cardinality(ConfiguredLocales)
           /\ \A language \in ConfiguredLocales :
                 \E i \in 1..Len(manifest'.service_parameters) :
                    manifest'.service_parameters[i] =
                        ServiceParameters(OutputFile(language), language)]_vars

\* the container keys of the spatial vector layers of a project
SpatialVectorKeys(layers) ==
    {get_layer_short_name(layers[i].short_name) :
        i \in {j \in 1..Len(layers) : isSpatial(layers[j]) /\ isVectorLayer(layers[j])}}

\* the layers of a project that are not spatial vector layers
Skipped(layers) ==
    {i \in 1..Len(layers) : ~(isSpatial(layers[i]) /\ isVectorLayer(layers[i]))}

\* what the step pushed to the log
pushed == SubSeq(log', Len(log) + 1, Len(log'))

NoWriteFailed(calls_made) == \A i \in 1..Len(calls_made) : ~calls_made[i].error

\* C22: the container build never aborts; when no write fails, the
\* container then holds exactly the registry short names of the spatial
\* vector layers of every loaded locale, French as well as English, and
\* one warning was logged for each layer skipped
C22_ContainerHoldsEveryLocale ==
    [][pc = "copy_layer_gpkg"
        => /\ pc' = "set_layer_data_source"
           /\ NoWriteFailed(writes')
               => /\ gpkg' = SpatialVectorKeys(qgs_layers.en)
                              \cup SpatialVectorKeys(qgs_layers.fr)
                  /\ Cardinality({i \in 1..Len(pushed) : pushed[i].level = "WARNING"})
                       >= Cardinality(Skipped(CurrentLayers))]_vars

\* a line of the log that is neither the announcement of a copy nor the
\* warning for a layer skipped
ReportsFailure(line) ==
    /\ line.level \in {"WARNING", "ERROR"}
    /\ line.message \notin {"is not vector ==> Not transfered",
                            "is not spatial ==> transfered"}

\* C23: when the write of the first layer fails, the container build
\* raises the user error of a container that cannot be created and the
\* run ends; when the first write succeeds and a later one fails, the
\* failure is logged, the other layers are written and the run goes on
C23_WriteFailureHandled ==
    [][(pc = "copy_layer_gpkg" /\ ~NoWriteFailed(writes'))
        => IF writes'[1].error
           THEN pc' = "returned" /\ outcome' = "logged"
           ELSE /\ pc' = "set_layer_data_source"
                /\ \E i \in 1..Len(pushed) : ReportsFailure(pushed[i])
                /\ gpkg' = Written(writes')]_vars

\* C28: once the project files were re-pointed, and no write had failed,
\* every container key a written project file refers to is a key of the
\* container built in this run
C28_RepointedLayersWereWritten ==
    NoWriteFailed(writes) => (repointed.en \cup repointed.fr) \subseteq gpkg

(***************************************************************************)
(* The catalogs                                                            *)
(***************************************************************************)
\* the body is a list of well-formed items
WellFormedBody(op, body) ==
    /\ body.shape = "list"
    /\ \A k \in 1..Len(body.items) :
          IF op = "add_themes" THEN WellFormedTheme(body.items[k])
          ELSE IF op = "add_departments" THEN WellFormedDepartment(body.items[k])
          ELSE TRUE

\* the catalog op fills is, at call i, the initial one or one op accepted
Accepted(op, i) ==
    LET before == {j \in 1..(i - 1) : calls[j].op = op}
    IN \A j \in before : (\A k \in before : k <= j) => calls[j].exc = "none"

\* C24: an ingestion raises the user error exactly when the body is
\* malformed, whatever the malformation, and never a raw exception; the
\* read operations raise no raw exception on a catalog that is the
\* initial one or was accepted
C24_IngestionRaisesOnlyUserErrors ==
    \A i \in 1..Len(calls) :
       LET c == calls[i]
       IN /\ c.op \in {"add_themes", "add_departments", "add_email"}
              => c.exc = IF WellFormedBody(c.op, c.arg) THEN "none" ELSE "user"
          /\ (c.op \in {"get_theme_uuid", "get_theme_lst"} /\ Accepted("add_themes", i))
              => c.exc # "raw"
          /\ (c.op = "get_department_lst" /\ Accepted("add_departments", i))
              => c.exc # "raw"

(***************************************************************************)
(* The snapshot and the project context                                    *)
(***************************************************************************)
\* C25: the snapshot of a run that names no project file to publish, its
\* project being saved, ends the run with a user error, and neither a
\* container, a manifest, an archive nor a request exists then
C25_SnapshotWithoutProjectFails ==
    [][(pc = "copy_qgis_project_file" /\ ~project.dirty /\ ConfiguredLocales = {})
        => /\ pc' = "returned" /\ outcome' = "logged"
           /\ files' = {} /\ gpkg' = {} /\ manifest' = NoManifest /\ sent' = <<>>]_vars

\* the run is past its snapshot and before its restoration
BetweenSnapshotAndRestoration ==
    pc \in {"copy_layer_gpkg", "set_layer_data_source", "create_json_control_file",
            "create_zip_file", "remote_operation", "restore_original_project_file"}

\* C26: between the snapshot and the restoration of a run with a locale
\* configured, the project context holds the copy of a locale's project;
\* when a run that made a snapshot has ended, the context holds again the
\* project that was open when the run started, unmodified
C26_ContextRestoredAtEndOfRun ==
    /\ (PipelineRun /\ BetweenSnapshotAndRestoration /\ ConfiguredLocales # {})
        => project.file \in {"out_en", "out_fr"}
    /\ (PipelineRun /\ DirCreated /\ pc = "returned")
        => project = [file |-> ctl_file.src_qgs_project_name, dirty |-> FALSE]

\* the themes of the catalog whose English or French title is title
ThemesTitled(title) ==
    {i \in 1..Len(json_theme.items) :
        title = json_theme.items[i].en \/ title = json_theme.items[i].fr}

\* C27: the manifest stage resolves the title chosen on the form to the
\* uuid of a theme that has this title; when the catalog has no theme of
\* that title (the empty choice, an empty catalog) the stage ends the run
\* with a user error and writes no manifest
C27_ThemeUuidOfChosenTitle ==
    [][pc = "create_json_control_file"
        => IF ThemesTitled(ctl_file.csz_collection_theme) = {}
           THEN pc' = "returned" /\ outcome' = "logged" /\ manifest' = NoManifest
           ELSE manifest' # NoManifest
                => \E i \in ThemesTitled(ctl_file.csz_collection_theme) :
                      manifest'.czs_collection_theme = json_theme.items[i].theme_uuid]_vars

(***************************************************************************)
(* Failed ingestions and failed logins                                     *)
(***************************************************************************)
\* the step ended the run with an exception
StepRaised == pc' = "returned" /\ outcome' \in {"logged", "escaped"}

CatalogsUnchanged == UNCHANGED <<json_theme, json_department, json_email>>

\* C29: a lookup whose ingestion fails, or any lookup that ends with an
\* exception, leaves the three catalogs as they were, and so does a
\* lookup answered with a status other than 200
C29_FailedLookupKeepsCatalogs ==
    [][(pc \in {"read_csz_themes", "read_ddr_departments", "read_user_email"})
        => /\ StepRaised
               => CatalogsUnchanged
           /\ (Answered /\ answer.status # 200)
               => CatalogsUnchanged]_vars

\* C30: a login that got no answer or a status other than 200 leaves the
\* token slot as it was; a login answered 200 with a token stores it and
\* goes on to the lookups when the body has every expected field, and
\* leaves the slot as it was when a field is missing
C30_FailedLoginKeepsToken ==
    [][pc = "create_access_token"
        => /\ (~Answered \/ answer.status # 200) => token' = token
           /\ (Answered /\ answer.status = 200 /\ answer.json_ok
                  /\ answer.body.access_token \in Tokens)
               => IF answer.body.complete
                  THEN token' = answer.body.access_token /\ pc' = "read_csz_themes"
                  ELSE token' = token
           /\ (Answered /\ answer.status = 200 /\ answer.json_ok
                  /\ answer.body.access_token = Absent)
               => token' = token]_vars

(***************************************************************************)
(* What a run leaves to the next one                                       *)
(***************************************************************************)
SessionUnchanged == UNCHANGED session

\* C31: when a validate, publish or unpublish run comes to its snapshot,
\* the two layer lists of the registry are empty, whatever earlier runs
\* registered; and no step of such a run changes the token slot or the
\* theme, department and email catalogs
C31_RunStartsWithEmptyRegistry ==
    /\ [](pc = "copy_qgis_project_file" => registry = NoRegistry)
    /\ [][(process_type \in ProcessTypes \/ process_type' \in ProcessTypes)
           => SessionUnchanged]_vars

\* a second run registered its layers although the run before it ended
\* with the project context on a locale's copy and its directory kept
C31_Witness ==
    /\ pc = "copy_layer_gpkg"
    /\ ctl_file.src_qgs_project_name \in {"out_en", "out_fr"}
    /\ Cardinality(disk) = 2
    /\ registry.en # <<>> /\ registry.fr # <<>>
    /\ token \in Tokens

\* C32: create_zip_file leaves the current directory of the process as it
\* found it, whether it wrote the archive or raised; and when cleanup is
\* about to delete the working directory of the run, that directory is
\* not the current directory of the process
C32_ZipRestoresCurrentDirectory ==
    /\ [][pc = "create_zip_file" => cwd' = cwd]_vars
    /\ [](pc = "delete_dir_file" => cwd # ctl_file.control_file_dir)

(***************************************************************************)
(* Termination                                                             *)
(***************************************************************************)
\* tempfile.mkdtemp finds an unused name: the run is not at its snapshot
\* with every name of DirNames taken
NameAvailable == pc = "copy_qgis_project_file" => DirNames \ disk # {}

\* C33: every run the host starts, whatever its kind, comes to its
\* outcome, done or failed, and then gives control back to the host
C33_EveryRunTerminates ==
    /\ (outcome = "running" /\ NameAvailable)
           ~> (pc = "returned" /\ outcome \in {"ok", "logged", "escaped"})
    /\ (pc # "idle" /\ NameAvailable) ~> (pc = "idle")

\* a run ended after the deletion retry loop used all its attempts
C33_Witness ==
    /\ pc = "returned" /\ outcome = "ok" /\ PipelineRun
    /\ Len(attempts) = MaxDeleteAttempts
    /\ \A i \in 1..Len(attempts) : ~attempts[i]

(***************************************************************************)
(* The container key                                                       *)
(***************************************************************************)
\* what the derivation is to make of one character: a space becomes an
\* underscore, a letter its unaccented lowercase form, and what has no
\* ASCII form disappears
ExpectedChar(c) ==
    CASE c = " " -> <<"_">>
      [] c \in {"A", "a"} -> <<"a">>
      [] c \in {"E", "e", "E'", "e'"} -> <<"e">>
      [] c \in {"acute", "euro"} -> <<>>
      [] OTHER -> <<c>>

RECURSIVE ExpectedKey(_)
ExpectedKey(short_name) ==
    IF short_name = <<>> THEN <<>>
    ELSE ExpectedChar(Head(short_name)) \o ExpectedKey(Tail(short_name))

\* C34: the key returned for a declared short name is that name with its
\* spaces replaced by underscores, lowercased, its accents removed and
\* its other non-ASCII characters dropped; it has no space, no uppercase
\* letter and no non-ASCII character, and deriving a key from it gives it
\* back
C34_ShortNameDerivation ==
    \A i \in 1..Len(calls) :
       LET key == calls[i].key
       IN /\ key = ExpectedKey(calls[i].short_name)
          /\ \A k \in 1..Len(key) :
                key[k] # " " /\ key[k] \notin {"A", "E", "E'"} /\ IsAscii(key[k])
          /\ get_layer_short_name(key) = key

\* a name with an accented capital and a space was given its key, and
\* the key was derived again
C34_Witness ==
    calls = <<KeyCall(<<"E'", " ">>, <<"e", "_">>), KeyCall(<<"e", "_">>, <<"e", "_">>)>>

(***************************************************************************)
(* The database-direct export path                                         *)
(***************************************************************************)
\* C35: exportLayersInDB, removeLayersFromDB and setLayersDataSource
\* never raise; they return True only when the operation succeeds for
\* every layer of the project, and then it was carried out for every
\* layer; they return False when the operation fails for a layer
C35_DatabaseOperationsCoverEveryLayer ==
    \A i \in 1..Len(calls) :
       LET c == calls[i]
           all_ok == \A k \in 1..Len(c.results) : c.results[k] = "ok"
       IN /\ c.exc = "none"
          /\ c.value => (all_ok /\ c.done = 1..Len(c.results))
          /\ ~all_ok => ~c.value

(***************************************************************************)
(* The log lines                                                           *)
(***************************************************************************)
\* the line with its leading spaces, and nothing else, turned into dots
LeadingSpacesDotted(line) ==
    [k \in 1..Len(line) |-> IF k <= leading_sp(line) THEN "." ELSE line[k]]

\* C36: push_info gives one line to the log for each line of the
\* supplementary text, with the timestamp and the message in front; with
\* pad_with_dot the leading spaces of the line, and only they, are dots,
\* and without it the line is as it was
C36_PushInfoPadsLeadingSpaces ==
    \A i \in 1..Len(calls) :
       LET c == calls[i]
           text_lines == split(c.suppl, <<>>)
       IN /\ Len(c.pushed) = Len(text_lines)
          /\ \A k \in 1..Len(text_lines) :
                c.pushed[k] = Pushed("date_time", c.message,
                                     IF c.pad_with_dot
                                     THEN LeadingSpacesDotted(text_lines[k])
                                     ELSE text_lines[k])

====
